---- MODULE Spec2Model ----
(***************************************************************************)
(* Typed stream transport of the routing crate (src/src/tcp_connections.rs)*)
(* as a state machine: TCP endpoints upgraded to an In channel (fed by a   *)
(* background decode task) and an Out sender, and the connection listener. *)
(***************************************************************************)
EXTENDS Integers, Sequences, FiniteSets, TLC

\* ------------------------------------------------------------------ bounds
MaxSend == 2        \* send attempts per Out on the single-connection runs
MultiMaxSend == 2   \* send attempts per Out when two connections run together
MaxRaw == 1         \* bytes a peer that never upgraded writes on its raw stream
MaxAll == 3         \* send attempts per Out on the send_all runs
MaxCalls == 2       \* send_all calls per Out
MaxConn == 2        \* connection attempts made by clients
MaxTimeout == 1     \* accept calls that time out
EchoMsgs == 2       \* values each client sends on the echo runs
Quorum == 2         \* distinct senders that make a refresh quorum (configuration)
Window == 2         \* staleness window of a bucket, in ticks (configuration)
MaxArrivals == 4    \* Refresh actions that arrive
ConnMaxSend == 1    \* send attempts per Out on the connecting runs

\* ------------------------------------------------------------- listener
\* The designated port of listen().
LivePort == 5483
\* Ports the operating system hands out for a bind to port 0.
EphemeralPorts == {49152, 49153}

\* ------------------------------------------------------------- endpoints
\* Endpoints 1,2 are the two ends of the first connection, 3,4 of the second.
Ep == {1, 2, 3, 4}
Peer(e) == IF e % 2 = 1 THEN e + 1 ELSE e - 1
\* Two u64 values as the tests send; one encodes in one byte, one in two.
Values == {7, 30}
\* The endpoints whose application writes data: the connecting side of each
\* connection. Every endpoint upgrades, reads, closes and drops.
Writers == {1, 3}
\* Bytes a foreign peer may write: a lone header byte, and a byte that starts no u64.
RawBytes == {24, 255}

VARIABLES
    ups,        \* e -> "absent" | "raw" | "up" | "err": the endpoint's TcpStream / upgrade_tcp result
    out,        \* e -> "none" | "live" | "closed" | "dropped": the OutTcpStream value
    sock,       \* e -> [wr, rd]: directions of the socket shut down so far
    wire,       \* e -> bytes written by e, not yet read by Peer(e)
    sent,       \* e -> values for which send returned Ok, in order (history)
    nsend,      \* e -> number of send calls made (Ok or Err)
    nraw,       \* e -> number of raw bytes written before upgrading
    rpc,        \* e -> "none" | "loop" | "exit" | "done": the decode task's position
    fwd,        \* e -> values the decode task forwarded to the In channel, in order
    taken,      \* e -> how many of fwd the consumer of In has received
    chanErr,    \* e -> number of errors stored in the In channel
    chanClosed, \* e -> the In channel's sender is gone (error() or drop)
    inSt,       \* e -> "none" | "live" | "dropped": the receiver held by the consumer
    decErr,     \* e -> the decode task met a decode failure (history)
    nshutRd,    \* e -> number of shutdown(Read) calls made by the decode task
    closedAt,   \* e -> how many values the peer had sent when e shut its write direction (history)
    endedAt,    \* e -> how many values e had sent when its decode task ended (history)
    saCalls,    \* e -> number of send_all calls made
    saRet,      \* e -> what the last send_all returned, with its argument
    panicked,   \* some thread of the process panicked
    portBusy,   \* another process holds the designated port
    lst,        \* "init" | "ok" | "err_clone" | "panic": what listen() came to
    boundPort,  \* the port the listener is bound to, 0 when none
    handle,     \* "none" | "held" | "dropped": the TcpListener returned to the caller
    apc,        \* "none" | "check" | "accept" | "done": the accept task's position
    backlog,    \* connections made to the listener and not yet accepted
    made,       \* every connection made to the listener, in order (history)
    nconn,      \* number of connection attempts made by clients
    accQ,       \* connections the accept task sent on its channel, in order
    accErr,     \* number of errors stored in the accept channel
    accClosed,  \* the accept channel's sender is gone
    accFail,    \* the accept task met an accept error other than a timeout (history)
    ntimeout,   \* number of accept calls that timed out
    rxSt,       \* "none" | "live" | "dropped": the receiver of accepted connections
    buckets,    \* RefreshKey -> the bucket's entries [sender, payload], <<>> when there is no bucket
    age,        \* RefreshKey -> time the bucket has gone without a new payload
    calls,      \* the handle_refresh calls made, in order: [key, entries] (history)
    lost,       \* the buckets dropped as stale, in order: [key, entries] (history)
    narr        \* number of Refresh actions that have arrived

connVars == <<ups, out, sock, wire, sent, nsend, nraw, rpc, fwd, taken, chanErr,
              chanClosed, inSt, decErr, nshutRd, closedAt, endedAt,
              saCalls, saRet>>
lsnVars == <<portBusy, lst, boundPort, handle, apc, backlog, made, nconn, accQ,
             accErr, accClosed, accFail, ntimeout, rxSt>>
aggVars == <<buckets, age, calls, lost, narr>>
vars == <<connVars, panicked, lsnVars, aggVars>>

\* ----------------------------------------------------------------- codec
\* cbor encoding of an unsigned integer below 256, as Encoder::encode writes it.
Encode(v) == IF v < 24 THEN <<v>> ELSE <<24, v>>

\* Decode with the two-byte form taking its header byte as the value.
DecodeHeaderAsValue(bytes, eof) ==
    IF bytes = <<>>
    THEN [kind |-> IF eof THEN "none" ELSE "block", val |-> 0, n |-> 0]
    ELSE IF Head(bytes) <= 24
    THEN [kind |-> "ok", val |-> Head(bytes), n |-> 1]
    ELSE [kind |-> "err", val |-> 0, n |-> 1]

\* Decode with a read that finds no byte yet taken for the end of the stream.
DecodeEofOnEmpty(bytes, eof) ==
    IF bytes = <<>>
    THEN [kind |-> "none", val |-> 0, n |-> 0]
    ELSE IF Head(bytes) < 24
    THEN [kind |-> "ok", val |-> Head(bytes), n |-> 1]
    ELSE IF Head(bytes) = 24
    THEN IF Len(bytes) >= 2
         THEN [kind |-> "ok", val |-> bytes[2], n |-> 2]
         ELSE [kind |-> IF eof THEN "err" ELSE "block", val |-> 0, n |-> 1]
    ELSE [kind |-> "err", val |-> 0, n |-> 1]

\* One Decoder::decode().next() on the bytes available, eof telling that no
\* byte will follow them: a value and the bytes it took, a failure, the end
\* of the stream (None), or a blocked read.
Decode(bytes, eof) ==
    IF bytes = <<>>
    THEN [kind |-> IF eof THEN "none" ELSE "block", val |-> 0, n |-> 0]
    ELSE IF Head(bytes) < 24
    THEN [kind |-> "ok", val |-> Head(bytes), n |-> 1]
    ELSE IF Head(bytes) = 24
    THEN IF Len(bytes) >= 2
         THEN [kind |-> "ok", val |-> bytes[2], n |-> 2]
         ELSE [kind |-> IF eof THEN "err" ELSE "block", val |-> 0, n |-> 1]
    ELSE [kind |-> "err", val |-> 0, n |-> 1]

Drop(s, n) == SubSeq(s, n + 1, Len(s))

\* cbor encoding of a (u64, u64) tuple: the header of an array of two items,
\* then the two items.
ArrayOfTwo == 130
EncodePair(p) == <<ArrayOfTwo>> \o Encode(p[1]) \o Encode(p[2])

\* An item inside a frame that has begun: the end of the stream there is a
\* failure (unexpected end of input), not the end of the sequence.
DecodeItem(bytes, eof) ==
    LET d == Decode(bytes, eof) IN
    IF d.kind = "none" THEN [d EXCEPT !.kind = "err"] ELSE d

\* One Decoder::decode().next() of a (u64, u64) on the bytes available.
DecodePair(bytes, eof) ==
    IF bytes = <<>>
    THEN [kind |-> IF eof THEN "none" ELSE "block", val |-> <<>>, n |-> 0]
    ELSE IF Head(bytes) # ArrayOfTwo
    THEN [kind |-> "err", val |-> <<>>, n |-> 1]
    ELSE LET a == DecodeItem(Tail(bytes), eof) IN
         IF a.kind # "ok"
         THEN [kind |-> a.kind, val |-> <<>>, n |-> 1 + a.n]
         ELSE LET b == DecodeItem(Drop(Tail(bytes), a.n), eof) IN
              IF b.kind # "ok"
              THEN [kind |-> b.kind, val |-> <<>>, n |-> 1 + a.n + b.n]
              ELSE [kind |-> "ok", val |-> <<a.val, b.val>>, n |-> 1 + a.n + b.n]

\* ---------------------------------------------------------------- socket
\* shutdown(Shutdown::Both) in place of Shutdown::Write.
ShutdownWriteBoth(s) == [wr |-> TRUE, rd |-> TRUE]
\* TcpStream::shutdown(Shutdown::Write) followed by .ok(): the write
\* direction is shut, whatever the call returned.
ShutdownWrite(s) == [s EXCEPT !.wr = TRUE]
\* The results a shutdown call can return: Ok, or an error of the system
\* (the socket is no longer connected).
ShutdownResults == {"ok", "err"}
\* The result of shutdown unwrapped in place of dropped.
ShutdownUnwrap(r) == r = "err"
\* Whether the caller of shutdown panics on result r: .ok() and let _ = drop it.
ShutdownPanics(r) == FALSE
\* shutdown(Shutdown::Both) in place of Shutdown::Read.
ShutdownReadBoth(s) == [wr |-> TRUE, rd |-> TRUE]
\* TcpStream::shutdown(Shutdown::Read) with its result dropped.
ShutdownRead(s) == [s EXCEPT !.rd = TRUE]

\* What the decode task of e can read: nothing more once its own read
\* direction is shut; otherwise the peer's bytes, ended by the peer's FIN.
ReadBytes(e) == IF sock[e].rd THEN <<>> ELSE wire[Peer(e)]
ReadEof(e) == sock[e].rd \/ sock[Peer(e)].wr

\* The next item of the In of e: the connecting side reads the (u64, u64)
\* replies, the accepting side the u64 values.
DecodeIn(e) ==
    IF e \in Writers THEN DecodePair(ReadBytes(e), ReadEof(e))
                     ELSE Decode(ReadBytes(e), ReadEof(e))

\* ------------------------------------------------------------------ init
InitConn(present) ==
    /\ ups = [e \in Ep |-> IF e \in present THEN "raw" ELSE "absent"]
    /\ out = [e \in Ep |-> "none"]
    /\ sock = [e \in Ep |-> [wr |-> FALSE, rd |-> FALSE]]
    /\ wire = [e \in Ep |-> <<>>]
    /\ sent = [e \in Ep |-> <<>>]
    /\ nsend = [e \in Ep |-> 0]
    /\ nraw = [e \in Ep |-> 0]
    /\ rpc = [e \in Ep |-> "none"]
    /\ fwd = [e \in Ep |-> <<>>]
    /\ taken = [e \in Ep |-> 0]
    /\ chanErr = [e \in Ep |-> 0]
    /\ chanClosed = [e \in Ep |-> FALSE]
    /\ inSt = [e \in Ep |-> "none"]
    /\ decErr = [e \in Ep |-> FALSE]
    /\ nshutRd = [e \in Ep |-> 0]
    /\ closedAt = [e \in Ep |-> 0]
    /\ endedAt = [e \in Ep |-> 0]
    /\ saCalls = [e \in Ep |-> 0]
    /\ saRet = [e \in Ep |-> [ok |-> TRUE, arg |-> <<>>, elem |-> 0, iter |-> <<>>, oracle |-> <<>>]]

\* --------------------------------------------------------------- upgrade
\* upgrade_tcp with the decode task spawned on the stream before the clone is
\* tried: on a failed clone the task runs on, its In discarded with the error.
UpgradeReaderFirst(e, cloned) ==
    /\ ups[e] = "raw"
    /\ rpc' = [rpc EXCEPT ![e] = "loop"]
    /\ IF cloned
       THEN /\ ups' = [ups EXCEPT ![e] = "up"]
            /\ out' = [out EXCEPT ![e] = "live"]
            /\ inSt' = [inSt EXCEPT ![e] = "live"]
       ELSE /\ ups' = [ups EXCEPT ![e] = "err"]
            /\ inSt' = [inSt EXCEPT ![e] = "dropped"]
            /\ out' = out
    /\ UNCHANGED <<sock, wire, sent, nsend, nraw, fwd, taken, chanErr, chanClosed,
                   decErr, nshutRd, closedAt, endedAt, saCalls, saRet, panicked, lsnVars, aggVars>>

\* upgrade_tcp: try_clone fails and the stream is dropped (the socket closes),
\* or the decode task is spawned on s1 and the Out wraps s2.
Upgrade(e, cloned) ==
    /\ ups[e] = "raw"
    /\ IF cloned
       THEN /\ ups' = [ups EXCEPT ![e] = "up"]
            /\ out' = [out EXCEPT ![e] = "live"]
            /\ rpc' = [rpc EXCEPT ![e] = "loop"]
            /\ inSt' = [inSt EXCEPT ![e] = "live"]
            /\ sock' = sock
       ELSE /\ ups' = [ups EXCEPT ![e] = "err"]
            /\ sock' = [sock EXCEPT ![e] = [wr |-> TRUE, rd |-> TRUE]]
            /\ UNCHANGED <<out, rpc, inSt>>
    /\ UNCHANGED <<wire, sent, nsend, nraw, fwd, taken, chanErr, chanClosed,
                   decErr, nshutRd, closedAt, endedAt, saCalls, saRet, panicked, lsnVars, aggVars>>

\* TcpStream::connect of connect_tcp, made by endpoint c: the connection is
\* established and both of its ends hold a stream, or the call fails and
\* connect_tcp returns the error. The upgrade of c's stream is the second
\* call of connect_tcp.
TcpConnect(c, connected) ==
    /\ ups[c] = "absent" /\ ups[Peer(c)] = "absent"
    /\ ups' = IF connected THEN [ups EXCEPT ![c] = "raw", ![Peer(c)] = "raw"]
                           ELSE [ups EXCEPT ![c] = "err"]
    /\ UNCHANGED <<out, sock, wire, sent, nsend, nraw, rpc, fwd, taken, chanErr,
                   chanClosed, inSt, decErr, nshutRd, closedAt, endedAt, saCalls,
                   saRet, panicked, lsnVars, aggVars>>

\* A peer that has not upgraded its stream writes one byte on it directly.
RawWrite(e, b) ==
    /\ ups[e] = "raw"
    /\ nraw[e] < MaxRaw
    /\ nraw' = [nraw EXCEPT ![e] = @ + 1]
    /\ wire' = [wire EXCEPT ![e] = Append(@, b)]
    /\ UNCHANGED <<ups, out, sock, sent, nsend, rpc, fwd, taken, chanErr,
                   chanClosed, inSt, decErr, nshutRd, closedAt, endedAt, saCalls, saRet, panicked, lsnVars, aggVars>>

\* ------------------------------------------------------------------ send
\* The bytes one send leaves on the stream: the whole frame when the write
\* succeeds, the first cut bytes of it when the write fails.
Written(v, ok, cut) == IF ok THEN Encode(v) ELSE SubSeq(Encode(v), 1, cut)

\* OutTcpStream::send: encode one value on the stream; Ok or Err to the caller.
Send(e, v, ok, cut, cap) ==
    /\ out[e] = "live"
    /\ nsend[e] < cap
    /\ cut < Len(Encode(v))
    /\ ok => cut = 0
    /\ nsend' = [nsend EXCEPT ![e] = @ + 1]
    /\ wire' = [wire EXCEPT ![e] = @ \o Written(v, ok, cut)]
    /\ sent' = [sent EXCEPT ![e] = IF ok THEN Append(@, v) ELSE @]
    /\ UNCHANGED <<ups, out, sock, nraw, rpc, fwd, taken, chanErr, chanClosed,
                   inSt, decErr, nshutRd, closedAt, endedAt, saCalls, saRet, panicked, lsnVars, aggVars>>

\* ----------------------------------------------------------- close, drop
\* OutTcpStream::close(self): shutdown(Write) returning r1, then self goes out
\* of scope and Drop::drop runs shutdown(Write) again, returning r2.
Close(e, r1, r2) ==
    /\ out[e] = "live"
    /\ out' = [out EXCEPT ![e] = "closed"]
    /\ sock' = [sock EXCEPT ![e] = ShutdownWrite(ShutdownWrite(@))]
    /\ panicked' = (panicked \/ ShutdownPanics(r1) \/ ShutdownPanics(r2))
    /\ closedAt' = [closedAt EXCEPT ![e] = Len(sent[Peer(e)])]
    /\ UNCHANGED <<ups, wire, sent, nsend, nraw, rpc, fwd, taken, chanErr,
                   chanClosed, inSt, decErr, nshutRd, endedAt, saCalls, saRet, lsnVars, aggVars>>

\* Drop for OutTcpStream: the owner lets the Out go without closing it.
DropOut(e, r) ==
    /\ out[e] = "live"
    /\ out' = [out EXCEPT ![e] = "dropped"]
    /\ sock' = [sock EXCEPT ![e] = ShutdownWrite(@)]
    /\ panicked' = (panicked \/ ShutdownPanics(r))
    /\ closedAt' = [closedAt EXCEPT ![e] = Len(sent[Peer(e)])]
    /\ UNCHANGED <<ups, wire, sent, nsend, nraw, rpc, fwd, taken, chanErr,
                   chanClosed, inSt, decErr, nshutRd, endedAt, saCalls, saRet, lsnVars, aggVars>>

\* ----------------------------------------------------------- decode task
\* The loop with its error arm reporting the failure and going on decoding.
DecodeStepResync(e) ==
    /\ rpc[e] = "loop"
    /\ LET d == DecodeIn(e) IN
       /\ d.kind # "block"
       /\ wire' = [wire EXCEPT ![Peer(e)] = IF sock[e].rd THEN @ ELSE Drop(@, d.n)]
       /\ CASE d.kind = "none" ->
                 /\ rpc' = [rpc EXCEPT ![e] = "exit"]
                 /\ UNCHANGED <<fwd, chanErr, chanClosed, decErr>>
            [] d.kind = "ok" /\ inSt[e] = "live" ->
                 /\ fwd' = [fwd EXCEPT ![e] = Append(@, d.val)]
                 /\ UNCHANGED <<rpc, chanErr, chanClosed, decErr>>
            [] d.kind = "ok" /\ inSt[e] # "live" ->
                 /\ rpc' = [rpc EXCEPT ![e] = "exit"]
                 /\ UNCHANGED <<fwd, chanErr, chanClosed, decErr>>
            [] d.kind = "err" ->
                 /\ decErr' = [decErr EXCEPT ![e] = TRUE]
                 /\ chanErr' = [chanErr EXCEPT ![e] = IF inSt[e] = "live" THEN @ + 1 ELSE @]
                 /\ UNCHANGED <<rpc, fwd, chanClosed>>
    /\ UNCHANGED <<ups, out, sock, sent, nsend, nraw, taken, inSt, nshutRd,
                   closedAt, endedAt, saCalls, saRet, panicked, lsnVars, aggVars>>

\* The loop with its error arm ending the decode task of every connection.
DecodeStepStopAll(e) ==
    /\ rpc[e] = "loop"
    /\ LET d == DecodeIn(e) IN
       /\ d.kind # "block"
       /\ wire' = [wire EXCEPT ![Peer(e)] = IF sock[e].rd THEN @ ELSE Drop(@, d.n)]
       /\ CASE d.kind = "none" ->
                 /\ rpc' = [rpc EXCEPT ![e] = "exit"]
                 /\ UNCHANGED <<fwd, chanErr, chanClosed, decErr>>
            [] d.kind = "ok" /\ inSt[e] = "live" ->
                 /\ fwd' = [fwd EXCEPT ![e] = Append(@, d.val)]
                 /\ UNCHANGED <<rpc, chanErr, chanClosed, decErr>>
            [] d.kind = "ok" /\ inSt[e] # "live" ->
                 /\ rpc' = [rpc EXCEPT ![e] = "exit"]
                 /\ UNCHANGED <<fwd, chanErr, chanClosed, decErr>>
            [] d.kind = "err" ->
                 /\ rpc' = [x \in Ep |-> IF rpc[x] = "loop" THEN "exit" ELSE rpc[x]]
                 /\ decErr' = [decErr EXCEPT ![e] = TRUE]
                 /\ chanErr' = [chanErr EXCEPT ![e] = IF inSt[e] = "live" THEN @ + 1 ELSE @]
                 /\ chanClosed' = [chanClosed EXCEPT ![e] = TRUE]
                 /\ fwd' = fwd
    /\ UNCHANGED <<ups, out, sock, sent, nsend, nraw, taken, inSt, nshutRd,
                   closedAt, endedAt, saCalls, saRet, panicked, lsnVars, aggVars>>

\* The loop with a failed in_snd.send returning from the task at once.
DecodeStepReturnOnDrop(e) ==
    /\ rpc[e] = "loop"
    /\ LET d == DecodeIn(e) IN
       /\ d.kind # "block"
       /\ wire' = [wire EXCEPT ![Peer(e)] = IF sock[e].rd THEN @ ELSE Drop(@, d.n)]
       /\ CASE d.kind = "none" ->
                 /\ rpc' = [rpc EXCEPT ![e] = "exit"]
                 /\ UNCHANGED <<fwd, chanErr, chanClosed, decErr>>
            [] d.kind = "ok" /\ inSt[e] = "live" ->
                 /\ fwd' = [fwd EXCEPT ![e] = Append(@, d.val)]
                 /\ UNCHANGED <<rpc, chanErr, chanClosed, decErr>>
            [] d.kind = "ok" /\ inSt[e] # "live" ->
                 /\ rpc' = [rpc EXCEPT ![e] = "done"]
                 /\ chanClosed' = [chanClosed EXCEPT ![e] = TRUE]
                 /\ UNCHANGED <<fwd, chanErr, decErr>>
            [] d.kind = "err" ->
                 /\ rpc' = [rpc EXCEPT ![e] = "exit"]
                 /\ decErr' = [decErr EXCEPT ![e] = TRUE]
                 /\ chanErr' = [chanErr EXCEPT ![e] = IF inSt[e] = "live" THEN @ + 1 ELSE @]
                 /\ chanClosed' = [chanClosed EXCEPT ![e] = TRUE]
                 /\ fwd' = fwd
    /\ UNCHANGED <<ups, out, sock, sent, nsend, nraw, taken, inSt, nshutRd,
                   closedAt, endedAt, saCalls, saRet, panicked, lsnVars, aggVars>>

\* The loop with the result of in_snd.send ignored.
DecodeStepIgnoreSend(e) ==
    /\ rpc[e] = "loop"
    /\ LET d == DecodeIn(e) IN
       /\ d.kind # "block"
       /\ wire' = [wire EXCEPT ![Peer(e)] = IF sock[e].rd THEN @ ELSE Drop(@, d.n)]
       /\ CASE d.kind = "none" ->
                 /\ rpc' = [rpc EXCEPT ![e] = "exit"]
                 /\ UNCHANGED <<fwd, chanErr, chanClosed, decErr>>
            [] d.kind = "ok" /\ inSt[e] = "live" ->
                 /\ fwd' = [fwd EXCEPT ![e] = Append(@, d.val)]
                 /\ UNCHANGED <<rpc, chanErr, chanClosed, decErr>>
            [] d.kind = "ok" /\ inSt[e] # "live" ->
                 UNCHANGED <<rpc, fwd, chanErr, chanClosed, decErr>>
            [] d.kind = "err" ->
                 /\ rpc' = [rpc EXCEPT ![e] = "exit"]
                 /\ decErr' = [decErr EXCEPT ![e] = TRUE]
                 /\ chanErr' = [chanErr EXCEPT ![e] = IF inSt[e] = "live" THEN @ + 1 ELSE @]
                 /\ chanClosed' = [chanClosed EXCEPT ![e] = TRUE]
                 /\ fwd' = fwd
    /\ UNCHANGED <<ups, out, sock, sent, nsend, nraw, taken, inSt, nshutRd,
                   closedAt, endedAt, saCalls, saRet, panicked, lsnVars, aggVars>>

\* One iteration of the loop of upgrade_reader's task.
DecodeStep(e) ==
    /\ rpc[e] = "loop"
    /\ LET d == DecodeIn(e) IN
       /\ d.kind # "block"
       /\ wire' = [wire EXCEPT ![Peer(e)] = IF sock[e].rd THEN @ ELSE Drop(@, d.n)]
       /\ CASE d.kind = "none" ->
                 /\ rpc' = [rpc EXCEPT ![e] = "exit"]
                 /\ UNCHANGED <<fwd, chanErr, chanClosed, decErr>>
            [] d.kind = "ok" /\ inSt[e] = "live" ->
                 /\ fwd' = [fwd EXCEPT ![e] = Append(@, d.val)]
                 /\ UNCHANGED <<rpc, chanErr, chanClosed, decErr>>
            [] d.kind = "ok" /\ inSt[e] # "live" ->
                 /\ rpc' = [rpc EXCEPT ![e] = "exit"]
                 /\ UNCHANGED <<fwd, chanErr, chanClosed, decErr>>
            [] d.kind = "err" ->
                 /\ rpc' = [rpc EXCEPT ![e] = "exit"]
                 /\ decErr' = [decErr EXCEPT ![e] = TRUE]
                 /\ chanErr' = [chanErr EXCEPT ![e] = IF inSt[e] = "live" THEN @ + 1 ELSE @]
                 /\ chanClosed' = [chanClosed EXCEPT ![e] = TRUE]
                 /\ fwd' = fwd
    /\ UNCHANGED <<ups, out, sock, sent, nsend, nraw, taken, inSt, nshutRd,
                   closedAt, endedAt, saCalls, saRet, panicked, lsnVars, aggVars>>

\* After the loop: shutdown(Read) on the stream, returning r, and the task's
\* closure ends, dropping the channel's sender.
ReaderExit(e, r) ==
    /\ rpc[e] = "exit"
    /\ rpc' = [rpc EXCEPT ![e] = "done"]
    /\ sock' = [sock EXCEPT ![e] = ShutdownRead(@)]
    /\ panicked' = (panicked \/ ShutdownPanics(r))
    /\ nshutRd' = [nshutRd EXCEPT ![e] = @ + 1]
    /\ chanClosed' = [chanClosed EXCEPT ![e] = TRUE]
    /\ endedAt' = [endedAt EXCEPT ![e] = Len(sent[e])]
    /\ UNCHANGED <<ups, out, wire, sent, nsend, nraw, fwd, taken, chanErr,
                   inSt, decErr, closedAt, saCalls, saRet, lsnVars, aggVars>>

\* -------------------------------------------------------------- consumer
\* The consumer of In takes the next forwarded value (into_blocking_iter).
Recv(e) ==
    /\ inSt[e] = "live"
    /\ taken[e] < Len(fwd[e])
    /\ taken' = [taken EXCEPT ![e] = @ + 1]
    /\ UNCHANGED <<ups, out, sock, wire, sent, nsend, nraw, rpc, fwd, chanErr,
                   chanClosed, inSt, decErr, nshutRd, closedAt, endedAt, saCalls, saRet, panicked, lsnVars, aggVars>>

\* The consumer drops the In receiver.
DropIn(e) ==
    /\ inSt[e] = "live"
    /\ inSt' = [inSt EXCEPT ![e] = "dropped"]
    /\ UNCHANGED <<ups, out, sock, wire, sent, nsend, nraw, rpc, fwd, taken,
                   chanErr, chanClosed, decErr, nshutRd, closedAt, endedAt, saCalls, saRet, panicked, lsnVars, aggVars>>

\* --------------------------------------------------------------- listen
\* No listener: listen() has not been called.
NoListener(busy) ==
    /\ portBusy = busy
    /\ lst = "init"
    /\ boundPort = 0
    /\ handle = "none"
    /\ apc = "none"
    /\ backlog = <<>>
    /\ made = <<>>
    /\ nconn = 0
    /\ accQ = <<>>
    /\ accErr = 0
    /\ accClosed = FALSE
    /\ accFail = FALSE
    /\ ntimeout = 0
    /\ rxSt = "none"

\* A bind that gives up when the designated port cannot be bound.
BindNoFallback(liveOk, anyOk, p) ==
    IF liveOk THEN [st |-> "bound", port |-> LivePort] ELSE [st |-> "err_bind", port |-> 0]

\* The two binds of listen(): the designated port, else port 0 (the system
\* picks p), unwrapped.
Bind(liveOk, anyOk, p) ==
    IF liveOk THEN [st |-> "bound", port |-> LivePort]
    ELSE IF anyOk THEN [st |-> "bound", port |-> p]
    ELSE [st |-> "panic", port |-> 0]

\* listen(): bind, create the channel, clone the listener, spawn the accept task.
Listen(liveOk, anyOk, p, cloneOk) ==
    /\ lst = "init"
    /\ portBusy => ~liveOk
    /\ LET b == Bind(liveOk, anyOk, p) IN
       IF b.st # "bound"
       THEN /\ lst' = b.st
            /\ panicked' = (panicked \/ b.st = "panic")
            /\ UNCHANGED <<boundPort, handle, apc, rxSt>>
       ELSE IF ~cloneOk
       THEN /\ lst' = "err_clone"
            /\ UNCHANGED <<boundPort, handle, apc, rxSt, panicked>>
       ELSE /\ lst' = "ok"
            /\ boundPort' = b.port
            /\ handle' = "held"
            /\ apc' = "check"
            /\ rxSt' = "live"
            /\ UNCHANGED panicked
    /\ UNCHANGED <<connVars, aggVars, portBusy, backlog, made, nconn, accQ, accErr, accClosed,
                   accFail, ntimeout>>

\* The listening socket is open while the caller's handle or the accept
\* task's clone of it is alive.
ListenerOpen == lst = "ok" /\ (handle = "held" \/ apc \in {"check", "accept"})

\* A client connects to port p (TcpStream::connect): the connection is queued
\* at the listener when p is its port, and goes elsewhere or is refused otherwise.
Connect(p) ==
    /\ nconn < MaxConn
    /\ nconn' = nconn + 1
    /\ IF ListenerOpen /\ p = boundPort
       THEN /\ backlog' = Append(backlog, [id |-> nconn + 1, port |-> p])
            /\ made' = Append(made, [id |-> nconn + 1, port |-> p])
       ELSE UNCHANGED <<backlog, made>>
    /\ UNCHANGED <<connVars, aggVars, panicked, portBusy, lst, boundPort, handle, apc, accQ,
                   accErr, accClosed, accFail, ntimeout, rxSt>>

\* Top of the accept loop: tx.is_closed().
AcceptCheck ==
    /\ apc = "check"
    /\ IF rxSt = "live"
       THEN apc' = "accept" /\ UNCHANGED accClosed
       ELSE apc' = "done" /\ accClosed' = TRUE
    /\ UNCHANGED <<connVars, aggVars, panicked, portBusy, lst, boundPort, handle, backlog, made,
                   nconn, accQ, accErr, accFail, ntimeout, rxSt>>

\* The accept loop reporting an accept error and going on accepting.
AcceptStepRetry(res) ==
    /\ apc = "accept"
    /\ res = "ok" => backlog # <<>>
    /\ res = "timeout" => ntimeout < MaxTimeout
    /\ CASE res = "ok" /\ rxSt = "live" ->
              /\ accQ' = Append(accQ, Head(backlog))
              /\ backlog' = Tail(backlog)
              /\ apc' = "check"
              /\ UNCHANGED <<accErr, accClosed, accFail, ntimeout>>
         [] res = "ok" /\ rxSt # "live" ->
              /\ backlog' = Tail(backlog)
              /\ apc' = "done"
              /\ accClosed' = TRUE
              /\ UNCHANGED <<accQ, accErr, accFail, ntimeout>>
         [] res = "timeout" ->
              /\ ntimeout' = ntimeout + 1
              /\ apc' = "check"
              /\ UNCHANGED <<accQ, backlog, accErr, accClosed, accFail>>
         [] res = "error" ->
              /\ accFail' = TRUE
              /\ accErr' = IF rxSt = "live" THEN accErr + 1 ELSE accErr
              /\ accErr < 2
              /\ apc' = "check"
              /\ UNCHANGED <<accQ, backlog, accClosed, ntimeout>>
    /\ UNCHANGED <<connVars, aggVars, panicked, portBusy, lst, boundPort, handle, made, nconn, rxSt>>

\* The accept loop going on accepting after a connection it could not forward.
AcceptStepNoBreak(res) ==
    /\ apc = "accept"
    /\ res = "ok" => backlog # <<>>
    /\ res = "timeout" => ntimeout < MaxTimeout
    /\ CASE res = "ok" /\ rxSt = "live" ->
              /\ accQ' = Append(accQ, Head(backlog))
              /\ backlog' = Tail(backlog)
              /\ apc' = "check"
              /\ UNCHANGED <<accErr, accClosed, accFail, ntimeout>>
         [] res = "ok" /\ rxSt # "live" ->
              /\ backlog' = Tail(backlog)
              /\ apc' = "accept"
              /\ UNCHANGED <<accQ, accErr, accClosed, accFail, ntimeout>>
         [] res = "timeout" ->
              /\ ntimeout' = ntimeout + 1
              /\ apc' = "check"
              /\ UNCHANGED <<accQ, backlog, accErr, accClosed, accFail>>
         [] res = "error" ->
              /\ accFail' = TRUE
              /\ accErr' = IF rxSt = "live" THEN accErr + 1 ELSE accErr
              /\ accClosed' = TRUE
              /\ apc' = "done"
              /\ UNCHANGED <<accQ, backlog, ntimeout>>
    /\ UNCHANGED <<connVars, aggVars, panicked, portBusy, lst, boundPort, handle, made, nconn, rxSt>>

\* One tcp_listener2.accept() of the accept loop and the arm taken on its
\* result: a connection, a timeout, or another error.
AcceptStep(res) ==
    /\ apc = "accept"
    /\ res = "ok" => backlog # <<>>
    /\ res = "timeout" => ntimeout < MaxTimeout
    /\ CASE res = "ok" /\ rxSt = "live" ->
              /\ accQ' = Append(accQ, Head(backlog))
              /\ backlog' = Tail(backlog)
              /\ apc' = "check"
              /\ UNCHANGED <<accErr, accClosed, accFail, ntimeout>>
         [] res = "ok" /\ rxSt # "live" ->
              /\ backlog' = Tail(backlog)
              /\ apc' = "done"
              /\ accClosed' = TRUE
              /\ UNCHANGED <<accQ, accErr, accFail, ntimeout>>
         [] res = "timeout" ->
              /\ ntimeout' = ntimeout + 1
              /\ apc' = "check"
              /\ UNCHANGED <<accQ, backlog, accErr, accClosed, accFail>>
         [] res = "error" ->
              /\ accFail' = TRUE
              /\ accErr' = IF rxSt = "live" THEN accErr + 1 ELSE accErr
              /\ accClosed' = TRUE
              /\ apc' = "done"
              /\ UNCHANGED <<accQ, backlog, ntimeout>>
    /\ UNCHANGED <<connVars, aggVars, panicked, portBusy, lst, boundPort, handle, made, nconn, rxSt>>

\* The caller drops the TcpListener that listen() returned.
DropHandle ==
    /\ handle = "held"
    /\ handle' = "dropped"
    /\ UNCHANGED <<connVars, aggVars, panicked, portBusy, lst, boundPort, apc, backlog, made,
                   nconn, accQ, accErr, accClosed, accFail, ntimeout, rxSt>>

\* The caller drops the receiver of accepted connections.
DropRx ==
    /\ rxSt = "live"
    /\ rxSt' = "dropped"
    /\ UNCHANGED <<connVars, aggVars, panicked, portBusy, lst, boundPort, handle, apc, backlog,
                   made, nconn, accQ, accErr, accClosed, accFail, ntimeout>>

\* ----------------------------------------------------- refresh aggregator
\* The aggregator that gathers the payloads of Refresh actions per
\* (type_tag, from_group) key before handle_refresh is called, as section 4.4
\* of the specification describes it. A payload is identified by the number
\* of the arrival that brought it.
RefreshKeys == {1, 2}
Senders == {1, 2, 3}

NoRefresh ==
    /\ buckets = [k \in RefreshKeys |-> <<>>]
    /\ age = [k \in RefreshKeys |-> 0]
    /\ calls = <<>>
    /\ lost = <<>>
    /\ narr = 0

SendersOf(b) == {b[i].sender : i \in 1..Len(b)}
PayloadsOf(b) == {b[i].payload : i \in 1..Len(b)}

\* A bucket that stays whatever its age.
ExpiredNever(b, a) == FALSE
\* The bucket has had no new payload within the staleness window.
Expired(b, a) == b # <<>> /\ a >= Window

\* The payload appended whoever sent it.
AdmitAlways(b, s, p) == Append(b, [sender |-> s, payload |-> p])
\* The payload appended to the bucket, tagged with its sender, unless the
\* bucket already holds a payload of that sender.
Admit(b, s, p) ==
    IF s \in SendersOf(b) THEN b ELSE Append(b, [sender |-> s, payload |-> p])

\* The count that is compared with the quorum.
QuorumCount(b) == Len(b)

\* The bucket kept after its delivery.
AfterCallKept(b) == b
\* What is left of a bucket once it has been delivered: it is removed.
AfterCall(b) == <<>>

\* A Refresh action for key k arrives from sender s. A stale bucket is
\* dropped first; the payload is admitted; at quorum the bucket's payloads
\* go to handle_refresh in one call and the bucket is removed.
RefreshArrive(k, s) ==
    /\ narr < MaxArrivals
    /\ narr' = narr + 1
    /\ LET stale == Expired(buckets[k], age[k])
           cur == IF stale THEN <<>> ELSE buckets[k]
           new == Admit(cur, s, narr + 1)
       IN /\ lost' = IF stale THEN Append(lost, [key |-> k, entries |-> buckets[k]])
                              ELSE lost
          /\ IF QuorumCount(new) >= Quorum
             THEN /\ calls' = Append(calls, [key |-> k, entries |-> new])
                  /\ buckets' = [buckets EXCEPT ![k] = AfterCall(new)]
             ELSE /\ calls' = calls
                  /\ buckets' = [buckets EXCEPT ![k] = new]
          /\ age' = [age EXCEPT ![k] = IF new = cur THEN @ ELSE 0]
    /\ UNCHANGED <<connVars, panicked, lsnVars>>

\* Time passes for the buckets that are not yet stale.
Tick ==
    /\ \E k \in RefreshKeys : buckets[k] # <<>> /\ age[k] < Window
    /\ age' = [k \in RefreshKeys |->
                  IF buckets[k] # <<>> /\ age[k] < Window THEN age[k] + 1 ELSE age[k]]
    /\ UNCHANGED <<connVars, panicked, lsnVars, buckets, calls, lost, narr>>

\* The staleness sweep drops the stale bucket of key k without delivery.
Sweep(k) ==
    /\ Expired(buckets[k], age[k])
    /\ lost' = Append(lost, [key |-> k, entries |-> buckets[k]])
    /\ buckets' = [buckets EXCEPT ![k] = <<>>]
    /\ age' = [age EXCEPT ![k] = 0]
    /\ UNCHANGED <<connVars, panicked, lsnVars, calls, narr>>

InitRefresh ==
    /\ InitConn({})
    /\ panicked = FALSE
    /\ NoListener(FALSE)
    /\ NoRefresh

NextRefresh ==
    \/ \E k \in RefreshKeys, s \in Senders : RefreshArrive(k, s)
    \/ Tick
    \/ \E k \in RefreshKeys : Sweep(k)

SpecRefresh == InitRefresh /\ [][NextRefresh]_vars

\* ------------------------------------------------------ listener runs
InitListen ==
    /\ InitConn({})
    /\ panicked = FALSE
    /\ \E busy \in BOOLEAN : NoListener(busy)
    /\ NoRefresh

NextListen ==
    \/ \E liveOk \in BOOLEAN, anyOk \in BOOLEAN, p \in EphemeralPorts, cloneOk \in BOOLEAN :
          Listen(liveOk, anyOk, p, cloneOk)
    \/ \E p \in {LivePort} \cup EphemeralPorts : Connect(p)
    \/ AcceptCheck
    \/ \E res \in {"ok", "timeout", "error"} : AcceptStep(res)
    \/ DropHandle
    \/ DropRx

SpecListen == InitListen /\ [][NextListen]_vars

\* --------------------------------------------------- single connection
Init ==
    /\ InitConn({1, 2})
    /\ panicked = FALSE
    /\ NoListener(FALSE)
    /\ NoRefresh

Next ==
    \/ \E e \in Ep, cloned \in BOOLEAN : Upgrade(e, cloned)
    \/ \E e \in Writers, b \in RawBytes : RawWrite(e, b)
    \/ \E e \in Writers, v \in Values, ok \in BOOLEAN, cut \in 0..1 : Send(e, v, ok, cut, MaxSend)
    \/ \E e \in Ep, r1 \in ShutdownResults, r2 \in ShutdownResults : Close(e, r1, r2)
    \/ \E e \in Ep, r \in ShutdownResults : DropOut(e, r)
    \/ \E e \in Ep : DecodeStep(e)
    \/ \E e \in Ep, r \in ShutdownResults : ReaderExit(e, r)
    \/ \E e \in Ep : Recv(e)
    \/ \E e \in Ep : DropIn(e)

Spec == Init /\ [][Next]_vars

\* -------------------------------------------------------------- send_all
\* send_all going on with the next element after a send that failed.
RECURSIVE SendAllLoopSkip(_, _, _, _, _)
SendAllLoopSkip(i, w, n, oracle, cut) ==
    IF i = <<>>
    THEN [ok |-> TRUE, elem |-> 0, iter |-> <<>>, wire |-> w, nok |-> n - 1]
    ELSE SendAllLoopSkip(Tail(i), w \o Written(Head(i), oracle[n], 0), n + 1, oracle, cut)

\* The loop of OutTcpStream::send_all over the iterator i, w being the bytes
\* on the stream, n the number of this send within the call, oracle[n]
\* whether the n-th send succeeds and cut what a failing send leaves behind.
RECURSIVE SendAllLoop(_, _, _, _, _)
SendAllLoop(i, w, n, oracle, cut) ==
    IF i = <<>>
    THEN [ok |-> TRUE, elem |-> 0, iter |-> <<>>, wire |-> w, nok |-> n - 1]
    ELSE IF oracle[n]
    THEN SendAllLoop(Tail(i), w \o Written(Head(i), TRUE, 0), n + 1, oracle, cut)
    ELSE [ok |-> FALSE, elem |-> Head(i), iter |-> Tail(i),
          wire |-> w \o Written(Head(i), FALSE, IF cut < Len(Encode(Head(i))) THEN cut ELSE 0),
          nok |-> n - 1]

\* OutTcpStream::send_all on the sequence arg.
SendAll(e, arg, oracle, cut) ==
    /\ out[e] = "live"
    /\ saCalls[e] < MaxCalls
    /\ nsend[e] + Len(arg) <= MaxAll
    /\ LET r == SendAllLoop(arg, wire[e], 1, oracle, cut) IN
       /\ wire' = [wire EXCEPT ![e] = r.wire]
       /\ sent' = [sent EXCEPT ![e] = @ \o SubSeq(arg, 1, r.nok)]
       /\ nsend' = [nsend EXCEPT ![e] = @ + r.nok + (IF r.ok THEN 0 ELSE 1)]
       /\ saRet' = [saRet EXCEPT ![e] = [ok |-> r.ok, arg |-> arg, elem |-> r.elem,
                                          iter |-> r.iter, oracle |-> oracle]]
    /\ saCalls' = [saCalls EXCEPT ![e] = @ + 1]
    /\ UNCHANGED <<ups, out, sock, nraw, rpc, fwd, taken, chanErr, chanClosed,
                   inSt, decErr, nshutRd, closedAt, endedAt, panicked, lsnVars, aggVars>>

\* The sequences of at most n values.
SeqsUpTo(n) == UNION {[1..k -> Values] : k \in 0..n}

NextSendAll ==
    \/ \E e \in Ep : Upgrade(e, TRUE)
    \/ \E e \in Writers, arg \in SeqsUpTo(MaxAll), cut \in 0..1 :
          \E oracle \in [1..Len(arg) -> BOOLEAN] : SendAll(e, arg, oracle, cut)
    \/ \E e \in Writers, r1 \in ShutdownResults, r2 \in ShutdownResults : Close(e, r1, r2)
    \/ \E e \in Ep : DecodeStep(e)
    \/ \E e \in Ep, r \in ShutdownResults : ReaderExit(e, r)

SpecSendAll == Init /\ [][NextSendAll]_vars

\* ------------------------------------------------------ two connections
\* Two connections whose four ends have all been upgraded; the writing sides
\* send and close, the accepting sides read and keep their Out.
InitMulti ==
    /\ ups = [e \in Ep |-> "up"]
    /\ out = [e \in Ep |-> "live"]
    /\ sock = [e \in Ep |-> [wr |-> FALSE, rd |-> FALSE]]
    /\ wire = [e \in Ep |-> <<>>]
    /\ sent = [e \in Ep |-> <<>>]
    /\ nsend = [e \in Ep |-> 0]
    /\ nraw = [e \in Ep |-> 0]
    /\ rpc = [e \in Ep |-> "loop"]
    /\ fwd = [e \in Ep |-> <<>>]
    /\ taken = [e \in Ep |-> 0]
    /\ chanErr = [e \in Ep |-> 0]
    /\ chanClosed = [e \in Ep |-> FALSE]
    /\ inSt = [e \in Ep |-> "live"]
    /\ decErr = [e \in Ep |-> FALSE]
    /\ nshutRd = [e \in Ep |-> 0]
    /\ closedAt = [e \in Ep |-> 0]
    /\ endedAt = [e \in Ep |-> 0]
    /\ saCalls = [e \in Ep |-> 0]
    /\ saRet = [e \in Ep |-> [ok |-> TRUE, arg |-> <<>>, elem |-> 0, iter |-> <<>>, oracle |-> <<>>]]
    /\ panicked = FALSE
    /\ NoListener(FALSE)
    /\ NoRefresh

NextMulti ==
    \/ \E e \in Writers, v \in Values, ok \in BOOLEAN, cut \in 0..1 : Send(e, v, ok, cut, MultiMaxSend)
    \/ \E e \in Writers, r1 \in ShutdownResults, r2 \in ShutdownResults : Close(e, r1, r2)
    \/ \E e \in Ep : DecodeStep(e)
    \/ \E e \in Ep, r \in ShutdownResults : ReaderExit(e, r)
    \/ \E e \in Ep : Recv(e)

SpecMulti == InitMulti /\ [][NextMulti]_vars

\* ------------------------------------------------------------ connecting
\* Two clients call connect_tcp; the accepting ends upgrade their streams;
\* the connections that come to be carry a value and are closed.
InitConnect ==
    /\ InitConn({})
    /\ panicked = FALSE
    /\ NoListener(FALSE)
    /\ NoRefresh

NextConnect ==
    \/ \E c \in Writers, connected \in BOOLEAN : TcpConnect(c, connected)
    \/ \E e \in Ep, cloned \in BOOLEAN : Upgrade(e, cloned)
    \/ \E e \in Writers, v \in Values, ok \in BOOLEAN, cut \in 0..1 : Send(e, v, ok, cut, ConnMaxSend)
    \/ \E e \in Writers, r1 \in ShutdownResults, r2 \in ShutdownResults : Close(e, r1, r2)
    \/ \E e \in Ep : DecodeStep(e)
    \/ \E e \in Ep, r \in ShutdownResults : ReaderExit(e, r)

SpecConnect == InitConnect /\ [][NextConnect]_vars

\* ------------------------------------------------------------ vocabulary
IsPrefix(s, t) == Len(s) <= Len(t) /\ SubSeq(t, 1, Len(s)) = s

\* The values of the whole frames at the head of a byte sequence.
RECURSIVE Frames(_)
Frames(bytes) ==
    LET d == Decode(bytes, TRUE) IN
    IF d.kind = "ok" THEN <<d.val>> \o Frames(Drop(bytes, d.n)) ELSE <<>>

\* Every byte e wrote came from a send that returned Ok.
CleanWriter(e) == nsend[e] = Len(sent[e]) /\ nraw[e] = 0
\* What the consumer of e's In has received so far.
Delivered(e) == SubSeq(fwd[e], 1, taken[e])
\* The consumer has received everything and the sequence has ended.
InEnded(e) == chanClosed[e] /\ taken[e] = Len(fwd[e])

\* ------------------------------------------------------------ echo server
\* The tests' round trip, from the moment every client holds its (In, Out)
\* from connect_tcp and every accepted stream has been upgraded by its server
\* thread. A client sends EchoMsgs values, each send returning Ok, and closes
\* its Out; its In is read by the collecting loop.
InitEcho == InitMulti

\* The k-th value of a client's loop (for x in 0u64 .. n), taken where the
\* encoding goes from one byte to two.
ClientValue(k) == 22 + k
\* The client's sending loop, and its close() once the loop has run out.
ClientSend(c) == Send(c, ClientValue(nsend[c] + 1), TRUE, 0, EchoMsgs)
ClientClose(c, r1, r2) == nsend[c] = EchoMsgs /\ Close(c, r1, r2)
\* The collecting loop on the client's In, which follows the close.
ClientRecv(c) == out[c] = "closed" /\ Recv(c)

\* The reply the server's thread makes to the value x.
Reply(x) == <<x, x + 1>>

\* One iteration of the server thread's loop: the next value of its In, and
\* the send of the reply, returning Ok.
EchoReply(s) ==
    /\ out[s] = "live" /\ inSt[s] = "live"
    /\ taken[s] < Len(fwd[s])
    /\ LET x == fwd[s][taken[s] + 1] IN
       /\ wire' = [wire EXCEPT ![s] = @ \o EncodePair(Reply(x))]
       /\ sent' = [sent EXCEPT ![s] = Append(@, Reply(x))]
    /\ taken' = [taken EXCEPT ![s] = @ + 1]
    /\ nsend' = [nsend EXCEPT ![s] = @ + 1]
    /\ UNCHANGED <<ups, out, sock, nraw, rpc, fwd, chanErr, chanClosed, inSt,
                   decErr, nshutRd, closedAt, endedAt, saCalls, saRet, panicked, lsnVars, aggVars>>

\* The loop leaving as soon as the In has nothing ready.
HandlerExitOnEmpty(s, r) ==
    /\ out[s] = "live" /\ inSt[s] = "live"
    /\ taken[s] = Len(fwd[s])
    /\ inSt' = [inSt EXCEPT ![s] = "dropped"]
    /\ out' = [out EXCEPT ![s] = "dropped"]
    /\ sock' = [sock EXCEPT ![s] = ShutdownWrite(@)]
    /\ panicked' = (panicked \/ ShutdownPanics(r))
    /\ closedAt' = [closedAt EXCEPT ![s] = Len(sent[Peer(s)])]
    /\ UNCHANGED <<ups, wire, sent, nsend, nraw, rpc, fwd, taken, chanErr,
                   chanClosed, decErr, nshutRd, endedAt, saCalls, saRet, lsnVars, aggVars>>

\* The server thread's loop ends with its In (into_blocking_iter returns None)
\* and the closure returns: the In and the Out are dropped.
HandlerExit(s, r) ==
    /\ out[s] = "live" /\ inSt[s] = "live"
    /\ InEnded(s)
    /\ inSt' = [inSt EXCEPT ![s] = "dropped"]
    /\ out' = [out EXCEPT ![s] = "dropped"]
    /\ sock' = [sock EXCEPT ![s] = ShutdownWrite(@)]
    /\ panicked' = (panicked \/ ShutdownPanics(r))
    /\ closedAt' = [closedAt EXCEPT ![s] = Len(sent[Peer(s)])]
    /\ UNCHANGED <<ups, wire, sent, nsend, nraw, rpc, fwd, taken, chanErr,
                   chanClosed, decErr, nshutRd, endedAt, saCalls, saRet, lsnVars, aggVars>>

NextEcho ==
    \/ \E c \in Writers : ClientSend(c)
    \/ \E c \in Writers, r1 \in ShutdownResults, r2 \in ShutdownResults : ClientClose(c, r1, r2)
    \/ \E c \in Writers : ClientRecv(c)
    \/ \E s \in Ep \ Writers : EchoReply(s)
    \/ \E s \in Ep \ Writers, r \in ShutdownResults : HandlerExit(s, r)
    \/ \E e \in Ep : DecodeStep(e)
    \/ \E e \in Ep, r \in ShutdownResults : ReaderExit(e, r)

SpecEcho == InitEcho /\ [][NextEcho]_vars

\* ----------------------------------------------------------------- C1
\* C1: when every byte on a direction came from successful sends, the peer's
\* In receives a prefix of the sent values in order at every moment, nothing
\* is lost in flight, no error is reported, the decode task can always go on
\* once the writer has closed, and when the task has ended the In holds
\* exactly the sent values and ends without error.
C1_InOrderDelivery ==
    \A e \in Ep : (CleanWriter(Peer(e)) /\ rpc[e] # "none") =>
        /\ IsPrefix(Delivered(e), sent[Peer(e)])
        /\ chanErr[e] = 0 /\ ~decErr[e]
        /\ (inSt[e] = "live" /\ rpc[e] = "loop")
              => fwd[e] \o Frames(wire[Peer(e)]) = sent[Peer(e)]
        /\ (rpc[e] = "loop" /\ sock[Peer(e)].wr)
              => Decode(ReadBytes(e), ReadEof(e)).kind # "block"
        /\ (inSt[e] = "live" /\ rpc[e] \in {"exit", "done"})
              => fwd[e] = sent[Peer(e)] /\ sock[Peer(e)].wr
        /\ rpc[e] = "done" => chanClosed[e]

C1_Witness ==
    \E e \in Ep :
        /\ CleanWriter(Peer(e)) /\ out[Peer(e)] = "closed"
        /\ sent[Peer(e)] = <<7, 30>>
        /\ rpc[e] = "done" /\ inSt[e] = "live"
        /\ Delivered(e) = <<7, 30>> /\ InEnded(e) /\ chanErr[e] = 0

\* ----------------------------------------------------------------- C2
\* C2: once e has closed or dropped its Out, only its write direction is shut
\* (the read direction is shut by the decode task alone), and the opposite
\* direction goes on: the decode task of e blocks only when every value the
\* peer sent has been forwarded, and ends only after the peer shut its own
\* write direction, with every value of the peer forwarded.
C2_HalfCloseIndependence ==
    \A e \in Ep : out[e] \in {"closed", "dropped"} =>
        /\ sock[e].wr
        /\ sock[e].rd => nshutRd[e] > 0
        /\ (CleanWriter(Peer(e)) /\ inSt[e] = "live") =>
              /\ rpc[e] = "loop" =>
                    /\ fwd[e] \o Frames(wire[Peer(e)]) = sent[Peer(e)]
                    /\ Decode(ReadBytes(e), ReadEof(e)).kind = "block"
                          => fwd[e] = sent[Peer(e)]
              /\ rpc[e] # "loop" => sock[Peer(e)].wr /\ fwd[e] = sent[Peer(e)]

C2_Witness ==
    \E e \in Ep :
        /\ out[e] \in {"closed", "dropped"} /\ closedAt[e] = 0
        /\ CleanWriter(Peer(e)) /\ ~sock[Peer(e)].wr
        /\ Len(sent[Peer(e)]) >= 2
        /\ Delivered(e) = sent[Peer(e)]

\* ----------------------------------------------------------------- C3
C3_ErrorOnce ==
    \A e \in Ep :
        /\ chanErr[e] <= 1
        /\ chanErr[e] = 1 => decErr[e]
        /\ decErr[e] =>
              /\ rpc[e] \in {"exit", "done"}
              /\ chanClosed[e]
              /\ inSt[e] = "live" => chanErr[e] = 1

C3_NothingAfter ==
    \A e \in Ep : decErr[e] =>
        /\ fwd'[e] = fwd[e]
        /\ chanErr'[e] = chanErr[e]
        /\ rpc'[e] # "loop"
        /\ decErr'[e]

\* C3: a decode failure stores one error in the In channel (when the consumer
\* still holds it), ends the decode task, and from then on no value is
\* forwarded and no second error is stored, whatever the peer writes.
C3_DecodeErrorTerminal == []C3_ErrorOnce /\ [][C3_NothingAfter]_vars

C3_Witness ==
    \E e \in Ep :
        /\ decErr[e] /\ rpc[e] = "done" /\ chanErr[e] = 1
        /\ Len(fwd[e]) >= 1
        /\ Decode(wire[Peer(e)], FALSE).kind = "ok"

\* ---------------------------------------------------------------- C10
C10_CloseStep ==
    \A e \in Ep : (out[e] = "live" /\ out'[e] # "live") =>
        /\ sock'[e] = ShutdownWrite(sock[e])
        /\ sock'[e].wr /\ sock'[e].rd = sock[e].rd
        /\ wire'[e] = wire[e] /\ rpc'[e] = rpc[e] /\ fwd'[e] = fwd[e]
        /\ chanClosed'[e] = chanClosed[e] /\ chanErr'[e] = chanErr[e]

C10_Idempotent ==
    \A e \in Ep :
        /\ ShutdownWrite(ShutdownWrite(sock[e])) = ShutdownWrite(sock[e])
        /\ out[e] \in {"closed", "dropped"} => sock[e].wr
        /\ ~panicked

\* C10: close() and the drop of an Out both leave the socket as one
\* shutdown(Write) leaves it, with the write direction shut and nothing else
\* changed: the second shutdown that the drop after close() performs changes
\* nothing, a shutdown of an already shut socket changes nothing, and whatever
\* the shutdown calls return, no thread panics.
C10_CloseIdempotent == []C10_Idempotent /\ [][C10_CloseStep]_vars

C10_Witness ==
    \E e \in Ep : out[e] = "closed" /\ sock[e].wr /\ ~sock[e].rd /\ rpc[e] = "loop"

\* ----------------------------------------------------------------- C4
\* The ends of the other connections.
OtherConn(e) == Ep \ {e, Peer(e)}
\* Everything the model holds about endpoint d.
Local(d) == <<ups[d], out[d], sock[d], wire[d], sent[d], nsend[d], rpc[d], fwd[d],
              taken[d], chanErr[d], chanClosed[d], inSt[d], decErr[d], nshutRd[d]>>

C4_ErrorStep ==
    \A e \in Ep : (decErr'[e] /\ ~decErr[e]) =>
        \A d \in OtherConn(e) : Local(d)' = Local(d)

C4_OthersDeliver ==
    \A e \in Ep : decErr[e] =>
        \A d \in OtherConn(e) :
            /\ out[d] = "live" \/ sock[d].wr
            /\ CleanWriter(Peer(d)) =>
                  /\ chanErr[d] = 0 /\ ~decErr[d]
                  /\ IsPrefix(Delivered(d), sent[Peer(d)])
                  /\ rpc[d] = "loop" => fwd[d] \o Frames(wire[Peer(d)]) = sent[Peer(d)]
                  /\ rpc[d] # "loop" => fwd[d] = sent[Peer(d)] /\ sock[Peer(d)].wr

\* C4: the step on which a decode task meets a decode failure changes nothing
\* of any endpoint of another connection, and after it the other connections
\* still deliver their values in order without error and keep their Out usable
\* until they close it themselves.
C4_ErrorIsolation == []C4_OthersDeliver /\ [][C4_ErrorStep]_vars

C4_Witness ==
    /\ decErr[2] /\ rpc[2] = "done"
    /\ CleanWriter(3) /\ Len(sent[3]) >= 1 /\ out[3] = "closed"
    /\ rpc[4] = "done" /\ Delivered(4) = sent[3] /\ InEnded(4) /\ chanErr[4] = 0
    /\ out[4] = "live"

\* ----------------------------------------------------------------- C5
\* The bytes of the frames of a sequence of values.
RECURSIVE EncodeAll(_)
EncodeAll(vs) == IF vs = <<>> THEN <<>> ELSE Encode(Head(vs)) \o EncodeAll(Tail(vs))
\* The number of the first send of a call that fails, Len(oracle) + 1 when none does.
FirstFail(oracle) ==
    IF \A n \in 1..Len(oracle) : oracle[n]
    THEN Len(oracle) + 1
    ELSE CHOOSE k \in 1..Len(oracle) : ~oracle[k] /\ \A n \in 1..(k - 1) : oracle[n]

C5_CallStep ==
    \A e \in Ep : saCalls'[e] # saCalls[e] =>
        LET r == saRet'[e]
            N == Len(r.arg)
            k == FirstFail(r.oracle)
            before == wire[e] \o EncodeAll(SubSeq(r.arg, 1, k - 1))
        IN  /\ r.ok = (k = N + 1)
            /\ sent'[e] = sent[e] \o SubSeq(r.arg, 1, k - 1)
            /\ IsPrefix(before, wire'[e])
            /\ r.ok => wire'[e] = before /\ nsend'[e] = nsend[e] + N
            /\ ~r.ok =>
                  /\ r.elem = r.arg[k]
                  /\ r.iter = SubSeq(r.arg, k + 1, N)
                  /\ Len(wire'[e]) < Len(before) + Len(Encode(r.arg[k]))
                  /\ nsend'[e] = nsend[e] + k

\* C5: a send_all call writes the frames of the elements before the first
\* failing send, in order; when the k-th send fails it makes exactly k sends,
\* writes no whole frame of element k or of any later element, and returns
\* element k with the iterator over elements k+1..N; with no failing send it
\* writes all N frames and returns Ok.
C5_SendAllStopsAtFirstFailure == [][C5_CallStep]_vars

C5_Witness ==
    \E e \in Ep :
        /\ saCalls[e] = 1 /\ ~saRet[e].ok
        /\ saRet[e].arg = <<7, 30, 7>> /\ saRet[e].oracle = <<TRUE, FALSE, TRUE>>
        /\ saRet[e].elem = 30 /\ saRet[e].iter = <<7>>
        /\ sent[e] = <<7>> /\ fwd[Peer(e)] = <<7>>

\* ----------------------------------------------------------------- C6
\* C6: listen() never returns the failure of the bind to the designated port;
\* when that port is in use and listen() returns Ok, the listener is bound to
\* an ephemeral port other than the designated one, every connection the
\* accept sequence yields was made to the bound address, and while the accept
\* task runs and the receiver is held the connections made to that address
\* are exactly those yielded followed by those still pending, in order.
C6_ListenerFallback ==
    /\ lst # "err_bind"
    /\ (portBusy /\ lst = "ok") => boundPort \in EphemeralPorts /\ boundPort # LivePort
    /\ \A i \in 1..Len(accQ) : accQ[i].port = boundPort
    /\ (rxSt = "live" /\ apc \in {"check", "accept"}) => accQ \o backlog = made

C6_Witness ==
    /\ portBusy /\ lst = "ok" /\ boundPort \in EphemeralPorts
    /\ Len(accQ) = 2 /\ accQ = made
    /\ \A i \in 1..Len(accQ) : accQ[i].port = boundPort

\* ----------------------------------------------------------------- C7
C7_ErrorOnce ==
    /\ accErr <= 1
    /\ accErr = 1 => accFail
    /\ accFail => apc = "done" /\ accClosed /\ (rxSt = "live" => accErr = 1)

C7_LoopStep ==
    /\ ntimeout' # ntimeout =>
          /\ apc' = "check"
          /\ UNCHANGED <<accQ, backlog, accErr, accClosed, accFail>>
    /\ apc = "done" => apc' = "done" /\ UNCHANGED <<accQ, accErr>>

\* C7: an accept that times out changes nothing and the loop goes on; any
\* other accept error stores one error in the accept channel (when its
\* receiver is still held) and ends the accept task; once the task has ended
\* no connection is yielded and no further error is stored.
C7_AcceptErrors == []C7_ErrorOnce /\ [][C7_LoopStep]_vars

C7_Witness ==
    /\ accFail /\ accErr = 1 /\ apc = "done"
    /\ ntimeout >= 1 /\ Len(accQ) >= 1 /\ backlog # <<>>

\* ----------------------------------------------------------------- C8
\* C8: once the caller has dropped the handle returned by listen(), the accept
\* task yields no further connection.
C8_HandleStopsAccepting == [][handle = "dropped" => accQ' = accQ]_vars

\* ----------------------------------------------------------------- C9
\* C9: no failure of the transport layer puts a thread of the process in a
\* panic.
C9_NoPanic == ~panicked

\* ----------------------------------------------------------------- C11
\* C11: while the consumer holds the In, its sequence ends only when the peer
\* has closed its write side or a decode failure occurred: otherwise the
\* decode task is still in its loop and the channel open. At the end of the
\* stream the task is never blocked, it ends having read every byte, and
\* without a decode failure no error is reported; a task that is done has
\* closed the channel.
C11_FiniteOnCloseOrError ==
    \A e \in Ep : inSt[e] = "live" =>
        /\ (rpc[e] \in {"exit", "done"} \/ chanClosed[e])
              => (decErr[e] \/ sock[Peer(e)].wr)
        /\ (rpc[e] = "loop" /\ sock[Peer(e)].wr)
              => Decode(ReadBytes(e), ReadEof(e)).kind # "block"
        /\ (rpc[e] \in {"exit", "done"} /\ ~decErr[e])
              => (wire[Peer(e)] = <<>> /\ chanErr[e] = 0)
        /\ rpc[e] = "done" => chanClosed[e]

\* The peer sent a value and closed; the In delivered it and ended cleanly.
C11_Witness ==
    \E e \in Ep :
        /\ inSt[e] = "live" /\ rpc[e] = "done" /\ InEnded(e)
        /\ ~decErr[e] /\ chanErr[e] = 0
        /\ sock[Peer(e)].wr /\ Len(fwd[e]) >= 1 /\ fwd[e] = sent[Peer(e)]

\* ----------------------------------------------------------------- C12
\* C12: no step of the decode task (an iteration of its loop, its end at the
\* end of the stream or on a decode failure, its shutdown of the read
\* direction) changes the write direction of the socket or the Out; as long
\* as the Out is live the write direction is open, whatever has become of the
\* In.
C12_ReaderStep ==
    \A e \in Ep :
        (rpc[e] \in {"loop", "exit"} /\ (rpc'[e] # rpc[e] \/ fwd'[e] # fwd[e]))
            => (sock'[e].wr = sock[e].wr /\ out'[e] = out[e])

C12_WriteOpen == \A e \in Ep : out[e] = "live" => ~sock[e].wr

C12_InEndKeepsOut == []C12_WriteOpen /\ [][C12_ReaderStep]_vars

\* The In of e has ended and its task has shut the read direction; a send
\* made on the Out of e after that succeeded and reached the peer.
C12_Witness ==
    \E e \in Ep :
        /\ rpc[e] = "done" /\ sock[e].rd /\ InEnded(e)
        /\ out[e] = "live" /\ ~sock[e].wr
        /\ Len(sent[e]) > endedAt[e]
        /\ fwd[Peer(e)] = sent[e]

\* ----------------------------------------------------------------- C13
\* C13: in the echo round trip every client's In holds, at every moment, the
\* replies to a prefix of the values the client sent, in order and without
\* error, and a client's In ends only with the replies to all of its EchoMsgs
\* values. Under every interleaving the run comes to its end: as long as a
\* loop has not terminated some thread can take a step, every step moves some
\* thread forward and none back, and at the end every server loop and every
\* collecting loop has terminated with clients times EchoMsgs replies
\* collected.
EchoReplies(vs) == [i \in 1..Len(vs) |-> Reply(vs[i])]

RECURSIVE SumTaken(_)
SumTaken(S) ==
    IF S = {} THEN 0
    ELSE LET c == CHOOSE x \in S : TRUE IN taken[c] + SumTaken(S \ {c})

C13_Replies ==
    \A c \in Writers :
        /\ IsPrefix(fwd[c], EchoReplies(sent[c]))
        /\ chanErr[c] = 0 /\ ~decErr[c]
        /\ (chanClosed[c] \/ rpc[c] # "loop")
              => (Len(sent[c]) = EchoMsgs /\ fwd[c] = EchoReplies(sent[c]))

EchoDone ==
    /\ \A c \in Writers : InEnded(c) /\ rpc[c] = "done" /\ out[c] = "closed"
    /\ \A s \in Ep \ Writers : out[s] = "dropped" /\ inSt[s] = "dropped" /\ rpc[s] = "done"
    /\ SumTaken(Writers) = Cardinality(Writers) * EchoMsgs

\* How far the threads of endpoint e have come.
EchoProgress(e) ==
    nsend[e] + taken[e] + Len(fwd[e])
    + (CASE rpc[e] = "loop" -> 0 [] rpc[e] = "exit" -> 1 [] OTHER -> 2)
    + (IF out[e] = "live" THEN 0 ELSE 1)

C13_Forward ==
    /\ \A e \in Ep : EchoProgress(e)' >= EchoProgress(e)
    /\ \E e \in Ep : EchoProgress(e)' > EchoProgress(e)

C13_NotStuck == EchoDone \/ ENABLED NextEcho

C13_EchoRoundTrip == [](C13_Replies /\ C13_NotStuck) /\ [][C13_Forward]_vars

\* Both clients have collected all their replies, the second reply of each
\* carrying a value encoded on two bytes.
C13_Witness ==
    /\ EchoDone
    /\ \A c \in Writers :
          /\ Len(Delivered(c)) = EchoMsgs
          /\ Delivered(c)[1] = Reply(ClientValue(1))
          /\ Delivered(c)[EchoMsgs] = Reply(ClientValue(EchoMsgs))

\* ----------------------------------------------------------------- C14
\* C14: every handle_refresh call carries the payloads of exactly Quorum
\* distinct senders, so none is made before the quorum; no payload is
\* delivered twice or left in a bucket after its delivery, and no bucket
\* stays at the quorum. A step makes at most one call, and the call for key k
\* is made when the arrival completes the quorum: it carries the whole bucket
\* of k and the new payload, and the bucket of k is removed.
C14_Calls ==
    /\ \A k \in RefreshKeys : Cardinality(SendersOf(buckets[k])) < Quorum
    /\ \A i \in 1..Len(calls) :
          /\ Len(calls[i].entries) = Quorum
          /\ Cardinality(SendersOf(calls[i].entries)) = Quorum
          /\ \A j \in 1..Len(calls) :
                i # j => PayloadsOf(calls[i].entries) \cap PayloadsOf(calls[j].entries) = {}
          /\ \A k \in RefreshKeys :
                PayloadsOf(calls[i].entries) \cap PayloadsOf(buckets[k]) = {}

C14_CallStep ==
    calls' # calls =>
        \E k \in RefreshKeys :
            /\ calls' = Append(calls, [key |-> k, entries |-> calls'[Len(calls')].entries])
            /\ Cardinality(SendersOf(buckets[k])) = Quorum - 1
            /\ SubSeq(calls'[Len(calls')].entries, 1, Quorum - 1) = buckets[k]
            /\ calls'[Len(calls')].entries[Quorum].payload = narr'
            /\ narr' = narr + 1
            /\ buckets'[k] = <<>>

C14_QuorumDelivery == []C14_Calls /\ [][C14_CallStep]_vars

\* Two rounds of the same key have each reached the quorum and been delivered.
C14_Witness ==
    /\ Len(calls) = 2
    /\ calls[1].key = calls[2].key
    /\ buckets[calls[1].key] = <<>>

\* ----------------------------------------------------------------- C15
\* C15: the count compared with the quorum is the number of distinct senders
\* of the bucket, and in a delivered call the number of distinct senders of
\* its payloads: a second payload of a sender is not counted.
C15_DistinctSenders ==
    /\ \A k \in RefreshKeys :
          QuorumCount(buckets[k]) = Cardinality(SendersOf(buckets[k]))
    /\ \A i \in 1..Len(calls) :
          QuorumCount(calls[i].entries) = Cardinality(SendersOf(calls[i].entries))

\* The second arrival repeated the sender of the first and was not counted:
\* the quorum came with the third arrival, from another sender.
C15_Witness ==
    /\ narr = 3 /\ lost = <<>>
    /\ \A k \in RefreshKeys : buckets[k] = <<>>
    /\ Len(calls) = 1
    /\ PayloadsOf(calls[1].entries) = {1, 3}

\* ----------------------------------------------------------------- C16
\* C16: a bucket dropped as stale held fewer than Quorum payloads, and none
\* of its payloads is in a handle_refresh call or in a bucket afterwards.
\* Once a bucket has gone the staleness window without a new payload, a step
\* either leaves it as it is, or drops it without any call, the bucket of the
\* key then holding at most the payload whose arrival begins a new round.
C16_Lost ==
    \A i \in 1..Len(lost) :
        /\ Cardinality(SendersOf(lost[i].entries)) < Quorum
        /\ \A j \in 1..Len(calls) :
              PayloadsOf(lost[i].entries) \cap PayloadsOf(calls[j].entries) = {}
        /\ \A k \in RefreshKeys :
              PayloadsOf(lost[i].entries) \cap PayloadsOf(buckets[k]) = {}

C16_StaleStep ==
    \A k \in RefreshKeys :
        (buckets[k] # <<>> /\ age[k] >= Window) =>
            \/ /\ buckets'[k] = buckets[k]
               /\ (calls' = calls \/ calls'[Len(calls')].key # k)
            \/ /\ lost' = Append(lost, [key |-> k, entries |-> buckets[k]])
               /\ calls' = calls
               /\ PayloadsOf(buckets'[k]) \subseteq {narr'}
               /\ age'[k] = 0

C16_StaleDropped == []C16_Lost /\ [][C16_StaleStep]_vars

\* A bucket one short of the quorum was dropped as stale, and a later round
\* of the same key reached the quorum with payloads that arrived after it.
C16_Witness ==
    \E i \in 1..Len(lost), j \in 1..Len(calls) :
        /\ lost[i].key = calls[j].key
        /\ Len(lost[i].entries) = Quorum - 1
        /\ \A p \in PayloadsOf(lost[i].entries), q \in PayloadsOf(calls[j].entries) : p < q

\* ----------------------------------------------------------------- C18
\* C18: the decode task has called shutdown(Read) exactly once when it is
\* done and not at all before, whatever made it leave its loop: the read
\* direction is open while the task is in its loop or has just left it, and
\* shut once the task is done.
C18_ShutdownOnExit ==
    \A e \in Ep :
        /\ nshutRd[e] = (IF rpc[e] = "done" THEN 1 ELSE 0)
        /\ rpc[e] = "done" => sock[e].rd
        /\ rpc[e] \in {"loop", "exit"} => ~sock[e].rd

\* One task left its loop at a message it could not forward, its consumer
\* gone and its peer still open; the task of the other end left at the end
\* of the stream; both are done, each with one shutdown.
C18_Witness ==
    \E e \in Ep :
        /\ inSt[e] = "dropped" /\ ~decErr[e] /\ ~sock[Peer(e)].wr
        /\ rpc[e] = "done" /\ nshutRd[e] = 1 /\ sock[e].rd
        /\ rpc[Peer(e)] = "done" /\ nshutRd[Peer(e)] = 1 /\ ~decErr[Peer(e)]
        /\ inSt[Peer(e)] = "live" /\ sock[e].wr

\* ----------------------------------------------------------------- C19
\* C19: once the consumer has dropped the In, the decode task forwards no
\* value and reports no error, and the first item it takes from the stream
\* after that, decoded or not, makes it leave its loop.
C19_AfterDrop ==
    \A e \in Ep : inSt[e] = "dropped" =>
        /\ fwd'[e] = fwd[e]
        /\ chanErr'[e] = chanErr[e]
        /\ (rpc[e] = "loop" /\ Len(wire'[Peer(e)]) < Len(wire[Peer(e)]))
              => rpc'[e] = "exit"
        /\ rpc[e] = "loop" => rpc'[e] \in {"loop", "exit"}

C19_DroppedInEndsTask == [][C19_AfterDrop]_vars

\* The consumer dropped the In; the peer, still open, sent a value that the
\* task decoded and discarded, and the task is done without a failure.
C19_Witness ==
    \E e \in Ep :
        /\ inSt[e] = "dropped" /\ rpc[e] = "done"
        /\ ~decErr[e] /\ chanErr[e] = 0 /\ ~sock[Peer(e)].wr
        /\ CleanWriter(Peer(e))
        /\ Len(fwd[e]) + Len(Frames(wire[Peer(e)])) < Len(sent[Peer(e)])

\* ----------------------------------------------------------------- C20
\* C20: the connections the accept task has accepted are those it yielded,
\* and at most one more: that one was accepted after the receiver had been
\* dropped, could not be forwarded and was dropped, and the task is done.
\* With the receiver dropped the task yields nothing and reports nothing,
\* its check at the top of the loop ends it, and once it is done no
\* connection is accepted.
Accepted == Len(made) - Len(backlog)

C20_AtMostOne ==
    /\ Accepted - Len(accQ) \in {0, 1}
    /\ Accepted - Len(accQ) = 1 => (apc = "done" /\ rxSt = "dropped")

C20_AfterDropRx ==
    /\ rxSt = "dropped" =>
          /\ accQ' = accQ /\ accErr' = accErr
          /\ apc = "check" => apc' \in {"check", "done"}
          /\ (apc = "accept" /\ Accepted' > Accepted) => apc' = "done"
    /\ apc = "done" => (apc' = "done" /\ Accepted' = Accepted)

C20_DroppedRxEndsAccept == []C20_AtMostOne /\ [][C20_AfterDropRx]_vars

\* The receiver was dropped while the task was in accept(): the task accepted
\* one more connection, dropped it and is done, and the connection made
\* after that stays unaccepted.
C20_Witness ==
    /\ rxSt = "dropped" /\ apc = "done" /\ ~accFail
    /\ Accepted - Len(accQ) = 1
    /\ backlog # <<>>

\* ----------------------------------------------------------------- C21
\* C21: an endpoint whose connect_tcp or upgrade_tcp has not returned both
\* halves has no In, no Out and no decode task, and nothing has been
\* forwarded or shut down on its behalf; a decode task exists only at an
\* endpoint whose upgrade returned both halves. After a failed connect there
\* is no socket; after a failed clone the stream is closed.
C21_FailAtomically ==
    \A e \in Ep :
        /\ ups[e] # "up" =>
              /\ out[e] = "none" /\ inSt[e] = "none" /\ rpc[e] = "none"
              /\ fwd[e] = <<>> /\ nshutRd[e] = 0 /\ ~chanClosed[e] /\ chanErr[e] = 0
        /\ ups[e] = "up" => (out[e] # "none" /\ inSt[e] # "none" /\ rpc[e] # "none")
        /\ (ups[e] = "err" /\ ups[Peer(e)] = "absent")
              => sock[e] = [wr |-> FALSE, rd |-> FALSE]
        /\ (ups[e] = "err" /\ ups[Peer(e)] # "absent")
              => sock[e] = [wr |-> TRUE, rd |-> TRUE]

\* The connect of one client failed; the other client connected and its clone
\* failed, and the accepting end of that connection, upgraded, read the end
\* of the stream.
C21_Witness ==
    \E c \in Writers, d \in Writers :
        /\ ups[c] = "err" /\ ups[Peer(c)] = "absent"
        /\ ups[d] = "err" /\ ups[Peer(d)] = "up"
        /\ rpc[Peer(d)] = "done" /\ ~decErr[Peer(d)] /\ fwd[Peer(d)] = <<>>

====
